---- MODULE Spec2Model ----
(***************************************************************************)
(* Model of the module-graph engine of the next-client extension           *)
(* (src/src/extension.ts, lines 1-566: the current iteration of the file). *)
(*                                                                         *)
(* State: the file system the extension reads, the moduleGraph map, the    *)
(* initial scan's progress, the queue of file-watcher notifications, the   *)
(* processFile calls whose handler continuation has not run yet, the open  *)
(* documents with their buffers, the debounce timer of the edit handler,   *)
(* the decorations each visible editor holds and the updateDecorations     *)
(* calls suspended at their await.                                         *)
(*                                                                         *)
(* Every action is one synchronous run-to-completion step of the           *)
(* JavaScript event loop (or one step of the environment): awaits are the  *)
(* only points where the actions of different handlers interleave.         *)
(***************************************************************************)
EXTENDS Naturals, Sequences, FiniteSets, TLC

VARIABLES
  fs,          \* file system: path -> file content, or NoFile
  moduleGraph, \* Map<string, ModuleInfo>: a function on the paths it holds
  isReady,     \* set once the initial scan has been merged and propagated
  isEnabled,   \* the enable/disable switch
  scanPhase,   \* where scanWorkspace().then(...) stands
  scanFiles,   \* allJsxFiles
  scanResults, \* the settled processFile promises of the scan
  events,      \* file-watcher notifications not delivered yet (FIFO)
  inflight,    \* processFile calls awaiting their handler's continuation, oldest first
  docUri,      \* vscode.window.activeTextEditor: its document, or NoPath
  docText,     \* open document -> its unsaved buffer text, or Null when it is not dirty
  timers,      \* pending setTimeout callbacks: timer id -> its event.document
  debounceTimer, \* the id setTimeout returned last (0: none yet)
  decorations, \* visible editor -> what setDecorations gave it last
  updates,     \* updateDecorations calls suspended at await resolveImportPath
  nInputs,     \* file-system changes, buffer edits and commands made so far
  nSwitches,   \* changes of the active editor made so far
  probe        \* the last direct call of the resolver or the extractor, with its result

vars == << fs, moduleGraph, isReady, isEnabled, scanPhase, scanFiles, scanResults,
           events, inflight, docUri, docText, timers, debounceTimer, decorations,
           updates, nInputs, nSwitches, probe >>

-----------------------------------------------------------------------------
(* Bounds of the model *)

\* most import declarations a file's text holds
MaxImports == 1

\* most inputs of a run: file-system changes (create, change, delete) made by
\* the environment, buffer edits and commands made by the user
MaxInputs == 2

\* most changes of the active editor in a run
MaxSwitches == 1

-----------------------------------------------------------------------------
(* Paths, specifiers and file contents *)

\* null, where a record (a ModuleInfo, a buffer text) is expected
Null == [null |-> TRUE]

\* null, where a path is expected
NoPath == << >>

\* what reading a missing file gives: the ENOENT error
NoFile == [code |-> "ENOENT"]

\* vscode.workspace.workspaceFolders[0].uri.fsPath; a path is its sequence of segments
workspaceRoot == << "w" >>

\* base names of the modules of the workspace
Names == { "a", "b", "page" }

\* const extensions = ["", ".js", ".jsx", ".ts", ".tsx"]
extensions == << "", ".js", ".jsx", ".ts", ".tsx" >>

\* absolutePath + ext
PathWithExt(absolutePath, ext) ==
  [absolutePath EXCEPT ![Len(absolutePath)] = @ \o ext]

\* path.join(absolutePath, "index" + ext)
IndexPath(absolutePath, ext) == Append(absolutePath, "index" \o ext)

\* path.dirname
Dirname(p) == IF Len(p) <= 1 THEN p ELSE SubSeq(p, 1, Len(p) - 1)

\* path.resolve(dir, segments): "." stays, ".." goes up, a name goes down
RECURSIVE PathResolve(_, _)
PathResolve(dir, segs) ==
  IF segs = << >> THEN dir
  ELSE LET s == Head(segs)
       IN PathResolve(IF s = "." \/ s = "" THEN dir
                      ELSE IF s = ".." THEN Dirname(dir)
                      ELSE Append(dir, s),
                      Tail(segs))

\* the source files the workspace can hold: w/a.tsx, w/b.tsx, w/page.tsx
Files == { PathWithExt(Append(workspaceRoot, n), ".tsx") : n \in Names }

\* import specifiers a file's text can hold: "./a", "./b", "./page"
\* (a specifier is its sequence of "/"-separated segments)
Specifiers == { << ".", n >> : n \in Names }

\* the directive lists a file's text can start with
DirectiveLists == { << >>, << "use client" >> }

\* a text on which parse() throws although errorRecovery is set
Unparsable == [error |-> "SyntaxError"]

\* a text that parses, as far as the parser's clients read it:
\* ast.program.directives and the sources of its ImportDeclaration nodes. Every
\* such text declares one component (a capitalised function) and renders each
\* component it imports as one JSX element.
ParsedTexts ==
  { [directives |-> d, importSources |-> s] :
      d \in DirectiveLists,
      s \in { t \in SUBSET Specifiers : Cardinality(t) <= MaxImports } }

\* a file's text
Contents == ParsedTexts \cup { Unparsable }

-----------------------------------------------------------------------------
(* Specifier resolver *)

\* what a path holds when it is a directory
Directory == [isDirectory |-> TRUE]

\* (await fs.promises.stat(p)).isFile(), a failed stat being ignored
IsFile(fsys, p) == p \in DOMAIN fsys /\ fsys[p] # NoFile /\ fsys[p] # Directory

\* the first candidate, in order, that is a regular file
FirstFile(fsys, candidates) ==
  LET hits == { i \in 1..Len(candidates) : IsFile(fsys, candidates[i]) }
  IN IF hits = {} THEN NoPath
     ELSE candidates[CHOOSE i \in hits : \A j \in hits : i <= j]

\* mutant of resolveFileExtension: the index files are tried first
resolveFileExtensionIndexFirst(fsys, absolutePath) ==
  FirstFile(fsys,
            [i \in 1..Len(extensions) |-> IndexPath(absolutePath, extensions[i])]
            \o [i \in 1..Len(extensions) |-> PathWithExt(absolutePath, extensions[i])])

\* the two loops over extensions: absolutePath + ext, then index + ext inside it
resolveFileExtension(fsys, absolutePath) ==
  FirstFile(fsys,
            [i \in 1..Len(extensions) |-> PathWithExt(absolutePath, extensions[i])]
            \o [i \in 1..Len(extensions) |-> IndexPath(absolutePath, extensions[i])])

\* the first segments a specifier can have that start with "."
DotSegments == { ".", "..", ".a" }

\* mutant of resolveImportPath: any other specifier is looked up under the root
resolveImportPathBareUnderRoot(fsys, importSource, currentFilePath, root) ==
  IF importSource # << >> /\ Head(importSource) \in DotSegments
  THEN resolveFileExtension(fsys, PathResolve(Dirname(currentFilePath), importSource))
  ELSE IF Len(importSource) >= 2 /\ Head(importSource) = "@"
  THEN resolveFileExtension(fsys, PathResolve(root, Tail(importSource)))
  ELSE resolveFileExtension(fsys, PathResolve(root, importSource))

\* importSource.startsWith("."), then importSource.startsWith("@/"), else null
resolveImportPath(fsys, importSource, currentFilePath, root) ==
  IF importSource # << >> /\ Head(importSource) \in DotSegments
  THEN resolveFileExtension(fsys, PathResolve(Dirname(currentFilePath), importSource))
  ELSE IF Len(importSource) >= 2 /\ Head(importSource) = "@"
  THEN resolveFileExtension(fsys, PathResolve(root, Tail(importSource)))
  ELSE NoPath

-----------------------------------------------------------------------------
(* Module parser / extractor *)

\* ast.program.directives.some((d) => d.value.value === "use client")
HasUseClientDirective(content) ==
  \E i \in 1..Len(content.directives) : content.directives[i] = "use client"

\* the imports set filled by the ImportDeclaration visitor
ResolvedImports(fsys, content, filePath, root) ==
  { resolveImportPath(fsys, s, filePath, root) : s \in content.importSources }
    \ { NoPath }

\* processFile: fileContent is the buffer text, or Null to read the file
processFile(fsys, filePath, root, fileContent) ==
  LET content == IF fileContent # Null THEN fileContent
                 ELSE IF filePath \in DOMAIN fsys THEN fsys[filePath] ELSE NoFile
  IN IF content = NoFile \/ content = Unparsable THEN Null
     ELSE [ filePath     |-> filePath,
            isClient     |-> HasUseClientDirective(content),
            hasUseClient |-> HasUseClientDirective(content),
            imports      |-> ResolvedImports(fsys, content, filePath, root) ]

-----------------------------------------------------------------------------
(* Boundary propagation *)

\* const MAX_ITERATIONS = 10000
MAX_ITERATIONS == 10000

\* the order in which a Map or Set is iterated (some order; the result of the
\* propagation does not depend on it)
RECURSIVE IterationOrder(_)
IterationOrder(S) ==
  IF S = {} THEN << >>
  ELSE LET x == CHOOSE x \in S : TRUE
       IN << x >> \o IterationOrder(S \ { x })

\* mutant of ResetStatus: every flag is reset to false
ResetStatusToFalse(graph) ==
  [p \in DOMAIN graph |-> [graph[p] EXCEPT !.isClient = FALSE]]

\* mutant of ResetStatus: the flags of the previous run are kept
ResetStatusSkipped(graph) == graph

\* mutant of ResetStatus: the assignment the other way round
ResetStatusAssignsDirective(graph) ==
  [p \in DOMAIN graph |-> [graph[p] EXCEPT !.hasUseClient = graph[p].isClient]]

\* moduleInfo.isClient = moduleInfo.hasUseClient, for every module
ResetStatus(graph) ==
  [p \in DOMAIN graph |-> [graph[p] EXCEPT !.isClient = graph[p].hasUseClient]]

\* mutant of InitialQueue: every module is enqueued
InitialQueueAll(graph) == IterationOrder(DOMAIN graph)

\* the queue after the reset loop: the modules that are client by directive
InitialQueue(graph) ==
  IterationOrder({ p \in DOMAIN graph : graph[p].isClient })

\* mutant of VisitImport: the imported module is marked but not enqueued
VisitImportNoEnqueue(st, importedModulePath) ==
  IF importedModulePath \in DOMAIN st.graph
     /\ ~st.graph[importedModulePath].isClient
  THEN [st EXCEPT !.graph = [st.graph EXCEPT ![importedModulePath].isClient = TRUE]]
  ELSE st

\* one imported module: mark it and enqueue it when it is in the graph and
\* not client yet
VisitImport(st, importedModulePath) ==
  IF importedModulePath \in DOMAIN st.graph
     /\ ~st.graph[importedModulePath].isClient
  THEN [st EXCEPT !.graph = [st.graph EXCEPT ![importedModulePath].isClient = TRUE],
                  !.queue = Append(st.queue, importedModulePath)]
  ELSE st

\* for (const importedModulePath of moduleInfo.imports)
RECURSIVE VisitImports(_, _)
VisitImports(st, todo) ==
  IF todo = << >> THEN st
  ELSE VisitImports(VisitImport(st, Head(todo)), Tail(todo))

\* mutant of PropagateLoop: an if in place of the while
PropagateLoopOnce(st) ==
  IF ~(Len(st.queue) > 0 /\ st.count < MAX_ITERATIONS) THEN st
  ELSE LET clientModulePath == Head(st.queue)
           shifted == [st EXCEPT !.queue = Tail(st.queue), !.count = st.count + 1]
       IN IF clientModulePath \notin DOMAIN st.graph
          THEN shifted
          ELSE VisitImports(shifted,
                 IterationOrder(st.graph[clientModulePath].imports))

\* while (queue.length > 0 && count < MAX_ITERATIONS)
RECURSIVE PropagateLoop(_)
PropagateLoop(st) ==
  IF ~(Len(st.queue) > 0 /\ st.count < MAX_ITERATIONS) THEN st
  ELSE LET clientModulePath == Head(st.queue)
           shifted == [st EXCEPT !.queue = Tail(st.queue), !.count = st.count + 1]
       IN IF clientModulePath \notin DOMAIN st.graph
          THEN PropagateLoop(shifted)
          ELSE PropagateLoop(VisitImports(shifted,
                 IterationOrder(st.graph[clientModulePath].imports)))

\* the run of propagateClientStatus on a graph: the final graph, queue and count
PropagateRun(graph) ==
  PropagateLoop([ graph |-> ResetStatus(graph),
                  queue |-> InitialQueue(ResetStatus(graph)),
                  count |-> 0 ])

propagateClientStatus(graph) == PropagateRun(graph).graph

-----------------------------------------------------------------------------
(* Module graph store *)

\* moduleGraph.set(moduleInfo.filePath, moduleInfo)
GraphSet(graph, moduleInfo) ==
  [p \in DOMAIN graph \cup { moduleInfo.filePath } |->
     IF p = moduleInfo.filePath THEN moduleInfo ELSE graph[p]]

\* moduleGraph.delete(filePath), then moduleInfo.imports.delete(filePath) for
\* every remaining module
GraphDelete(graph, filePath) ==
  [p \in DOMAIN graph \ { filePath } |->
     [graph[p] EXCEPT !.imports = @ \ { filePath }]]

\* for (const moduleInfo of results) if (moduleInfo) moduleGraph.set(...)
GraphMerge(graph, results) ==
  LET kept == { f \in DOMAIN results : results[f] # Null }
  IN [p \in DOMAIN graph \cup kept |-> IF p \in kept THEN results[p] ELSE graph[p]]

EmptyMap == [p \in {} |-> Null]

-----------------------------------------------------------------------------
\* w/<name>.tsx
File(name) == PathWithExt(Append(workspaceRoot, name), ".tsx")

\* the text of a file: its directive list and the names its specifiers "./<name>" hold
Text(directiveList, names) ==
  [directives |-> directiveList, importSources |-> { << ".", n >> : n \in names }]

\* a workspace: the files named hold the texts given, the others do not exist
Workspace(texts) ==
  [f \in Files |-> IF \E n \in DOMAIN texts : File(n) = f
                   THEN texts[CHOOSE n \in DOMAIN texts : File(n) = f]
                   ELSE NoFile]

-----------------------------------------------------------------------------
(* Decorations *)

\* the range of the identifier of the component the text declares
DefinitionRange == << "definition" >>

\* the ranges of the tags of the JSX element that renders the component
\* imported from importSource
UsageRange(importSource) == << "usage" >> \o importSource

\* editor.document.getText(): the buffer of a dirty document, else the text of
\* its file, else (the file does not exist yet) the empty text
DocumentText(fsys, texts, uri) ==
  IF texts[uri] # Null THEN texts[uri]
  ELSE IF IsFile(fsys, uri) THEN fsys[uri]
  ELSE Text(<< >>, {})

\* editor.setDecorations(clientComponentDecorationType, ranges), called by `by`
SetDecorations(decs, editor, ranges, by) ==
  [decs EXCEPT ![editor] = [ranges |-> ranges, by |-> by]]

\* clearAllDecorations()
clearAllDecorations(decs) ==
  [e \in DOMAIN decs |-> [ranges |-> {}, by |-> "clearAllDecorations"]]

\* refreshDecorationStyle(): disposing of the decoration type strips its
\* decorations from every editor
refreshDecorationStyle(decs) == [e \in DOMAIN decs |-> Null]

\* mutant of EarlyReturn: isReady is not looked at
EarlyReturnIgnoresReady(editor, ready) == editor = NoPath

\* if (!editor || !isReady) return
EarlyReturn(editor, ready) == editor = NoPath \/ ~ready

\* updateDecorations(editor) up to its first await, or to its end when it
\* awaits nothing. ui holds the decorations and the suspended calls.
updateDecorations(ui, editor, ready, enabled, graph, fsys, texts) ==
  IF EarlyReturn(editor, ready) THEN ui
  ELSE IF ~enabled
  THEN [ui EXCEPT !.decorations = SetDecorations(@, editor, {}, "updateDecorations")]
  ELSE LET fileContent == DocumentText(fsys, texts, editor)
       IN IF fileContent = Unparsable
          THEN [ui EXCEPT !.decorations =
                            SetDecorations(@, editor, {}, "updateDecorations")]
          ELSE LET moduleIsClient == editor \in DOMAIN graph /\ graph[editor].isClient
                   definitions == IF moduleIsClient THEN { DefinitionRange } ELSE {}
                   jsxElements == IterationOrder(fileContent.importSources)
               IN IF jsxElements = << >>
                  THEN [ui EXCEPT !.decorations =
                          SetDecorations(@, editor, definitions, "updateDecorations")]
                  ELSE [ui EXCEPT !.updates = Append(@,
                          [ editor             |-> editor,
                            decorations        |-> definitions,
                            jsxElements        |-> jsxElements,
                            absoluteImportPath |->
                              resolveImportPath(fsys, Head(jsxElements), editor,
                                                workspaceRoot) ])]

\* sequence s without its i-th element
RemoveAt(s, i) == SubSeq(s, 1, i - 1) \o SubSeq(s, i + 1, Len(s))

\* mutant of ResumeUpdate: every imported module found in the graph is taken
\* for a client module
ResumeUpdateAnyModule(ui, i, graph, fsys) ==
  LET call == ui.updates[i]
      decs == call.decorations \cup
                (IF call.absoluteImportPath \in DOMAIN graph
                 THEN { UsageRange(Head(call.jsxElements)) } ELSE {})
  IN [ decorations |-> SetDecorations(ui.decorations, call.editor, decs,
                                      "updateDecorations"),
       updates     |-> RemoveAt(ui.updates, i) ]

\* the i-th suspended updateDecorations call after its await: the graph is read
\* for the resolved import, then the next JSX element is awaited or, after the
\* last one, the decorations are applied
ResumeUpdate(ui, i, graph, fsys) ==
  LET call == ui.updates[i]
      importSource == Head(call.jsxElements)
      importedIsClient == /\ call.absoluteImportPath \in DOMAIN graph
                          /\ graph[call.absoluteImportPath].isClient
      decs == call.decorations \cup
                (IF importedIsClient THEN { UsageRange(importSource) } ELSE {})
      rest == Tail(call.jsxElements)
  IN IF rest = << >>
     THEN [ decorations |-> SetDecorations(ui.decorations, call.editor, decs,
                                           "updateDecorations"),
            updates     |-> RemoveAt(ui.updates, i) ]
     ELSE [ui EXCEPT !.updates[i] =
             [call EXCEPT !.decorations = decs,
                          !.jsxElements = rest,
                          !.absoluteImportPath =
                            resolveImportPath(fsys, Head(rest), call.editor,
                                              workspaceRoot)]]

\* editors.forEach(updateDecorations), editors in the order of the array
RECURSIVE ForEachUpdateDecorations(_, _, _, _, _, _, _)
ForEachUpdateDecorations(ui, editors, ready, enabled, graph, fsys, texts) ==
  IF editors = << >> THEN ui
  ELSE ForEachUpdateDecorations(
         updateDecorations(ui, Head(editors), ready, enabled, graph, fsys, texts),
         Tail(editors), ready, enabled, graph, fsys, texts)

\* vscode.window.visibleTextEditors: every open document is shown in an editor
visibleTextEditors(texts) == IterationOrder(DOMAIN texts)

\* the workspaces a run starts in
InitialWorkspaces ==
  { Workspace(EmptyMap),
    Workspace([a |-> Text(<< "use client" >>, { "page" }), page |-> Text(<< >>, { "b" })]),
    Workspace([a |-> Text(<< >>, { "b" }), b |-> Text(<< "use client" >>, {})]) }

\* the document of the editor that is active at first (it need not be saved to disk yet)
ActiveDocument == File("a")

\* the texts the environment writes to files and the user types into buffers
InputTexts ==
  { Text(<< "use client" >>, { "b" }),
    Text(<< >>, { "page" }),
    Text(<< >>, { "a" }),
    Unparsable }

\* the documents open in the window, each shown in its own editor
OpenDocuments == { File("a"), File("b") }

(* Initial state: activate() has returned. scanWorkspace() has cleared the    *)
(* graph and awaits findFiles; the watcher and the handlers are registered.   *)

Init ==
  /\ fs \in InitialWorkspaces
  /\ moduleGraph = EmptyMap
  /\ isReady = FALSE
  /\ isEnabled = TRUE
  /\ scanPhase = "findFiles"
  /\ scanFiles = {}
  /\ scanResults = EmptyMap
  /\ events = << >>
  /\ inflight = << >>
  /\ docUri = ActiveDocument
  /\ docText = [d \in OpenDocuments |-> Null]
  /\ timers = EmptyMap
  /\ debounceTimer = 0
  /\ decorations = [d \in OpenDocuments |-> Null]
  /\ updates = << >>
  /\ nInputs = 0
  /\ nSwitches = 0
  /\ probe = Null

\* the decorations and the suspended updateDecorations calls
UI == [decorations |-> decorations, updates |-> updates]

\* reprocessGraphAndUpdateDecorations(): the graph and the ui after it
reprocessGraphAndUpdateDecorations(graph, ui, ready, enabled, fsys, texts) ==
  LET propagated == propagateClientStatus(graph)
  IN [ graph |-> propagated,
       ui    |-> ForEachUpdateDecorations(ui, visibleTextEditors(texts), ready,
                                          enabled, propagated, fsys, texts) ]

-----------------------------------------------------------------------------
(* Initial scan: scanWorkspace().then(...) *)

\* await vscode.workspace.findFiles(...)
ScanFindFiles ==
  /\ scanPhase = "findFiles"
  /\ scanFiles' = { f \in Files : fs[f] # NoFile }
  /\ scanPhase' = "process"
  /\ UNCHANGED << probe, fs, moduleGraph, isReady, isEnabled, scanResults, events, inflight,
                  docUri, docText, timers, debounceTimer, decorations, updates,
                  nInputs, nSwitches >>

\* one of the parallel processFile(fileUri, workspaceRoot) calls settles
ScanProcessFile(f) ==
  /\ scanPhase = "process"
  /\ f \in scanFiles \ DOMAIN scanResults
  /\ scanResults' = [p \in DOMAIN scanResults \cup { f } |->
                       IF p = f THEN processFile(fs, f, workspaceRoot, Null)
                       ELSE scanResults[p]]
  /\ UNCHANGED << probe, fs, moduleGraph, isReady, isEnabled, scanPhase, scanFiles, events,
                  inflight, docUri, docText, timers, debounceTimer, decorations,
                  updates, nInputs, nSwitches >>

\* after await Promise.all(processPromises): the merge loop
ScanMerge ==
  /\ scanPhase = "process"
  /\ DOMAIN scanResults = scanFiles
  /\ moduleGraph' = GraphMerge(moduleGraph, scanResults)
  /\ scanPhase' = "merged"
  /\ UNCHANGED << probe, fs, isReady, isEnabled, scanFiles, scanResults, events, inflight,
                  docUri, docText, timers, debounceTimer, decorations, updates,
                  nInputs, nSwitches >>

\* the .then callback: reprocessGraphAndUpdateDecorations(); isReady = true
ScanThen ==
  /\ scanPhase = "merged"
  /\ LET after == reprocessGraphAndUpdateDecorations(moduleGraph, UI, isReady,
                                                     isEnabled, fs, docText)
     IN /\ moduleGraph' = after.graph
        /\ decorations' = after.ui.decorations
        /\ updates' = after.ui.updates
  /\ isReady' = TRUE
  /\ scanPhase' = "done"
  /\ UNCHANGED << probe, fs, isEnabled, scanFiles, scanResults, events, inflight,
                  docUri, docText, timers, debounceTimer, nInputs, nSwitches >>

-----------------------------------------------------------------------------
(* Environment: the file system changes and the watcher is notified *)

Notify(kind, uri) == Append(events, [kind |-> kind, uri |-> uri])

FsCreate(f, c) ==
  /\ nInputs < MaxInputs
  /\ fs[f] = NoFile
  /\ fs' = [fs EXCEPT ![f] = c]
  /\ events' = Notify("create", f)
  /\ nInputs' = nInputs + 1
  /\ UNCHANGED << probe, moduleGraph, isReady, isEnabled, scanPhase, scanFiles, scanResults,
                  inflight, docUri, docText, timers, debounceTimer, decorations,
                  updates, nSwitches >>

FsChange(f, c) ==
  /\ nInputs < MaxInputs
  /\ fs[f] # NoFile
  /\ fs[f] # c
  /\ fs' = [fs EXCEPT ![f] = c]
  /\ events' = Notify("change", f)
  /\ nInputs' = nInputs + 1
  /\ UNCHANGED << probe, moduleGraph, isReady, isEnabled, scanPhase, scanFiles, scanResults,
                  inflight, docUri, docText, timers, debounceTimer, decorations,
                  updates, nSwitches >>

FsDelete(f) ==
  /\ nInputs < MaxInputs
  /\ fs[f] # NoFile
  /\ fs' = [fs EXCEPT ![f] = NoFile]
  /\ events' = Notify("delete", f)
  /\ nInputs' = nInputs + 1
  /\ UNCHANGED << probe, moduleGraph, isReady, isEnabled, scanPhase, scanFiles, scanResults,
                  inflight, docUri, docText, timers, debounceTimer, decorations,
                  updates, nSwitches >>

-----------------------------------------------------------------------------
(* File-watcher handlers *)

\* a processFile call of a handler, started for uri, that settles with moduleInfo
Task(kind, uri, moduleInfo) == [kind |-> kind, uri |-> uri, moduleInfo |-> moduleInfo]

\* doc && doc.isDirty, for the document of uri
IsOpenAndDirty(uri) == uri \in DOMAIN docText /\ docText[uri] # Null

\* watcher.onDidChange up to its await processFile(uri, workspaceRoot)
OnDidChange ==
  /\ events # << >>
  /\ Head(events).kind = "change"
  /\ events' = Tail(events)
  /\ inflight' = IF IsOpenAndDirty(Head(events).uri) THEN inflight
                 ELSE Append(inflight,
                        Task("change", Head(events).uri,
                             processFile(fs, Head(events).uri, workspaceRoot, Null)))
  /\ UNCHANGED << probe, fs, moduleGraph, isReady, isEnabled, scanPhase, scanFiles,
                  scanResults, docUri, docText, timers, debounceTimer, decorations,
                  updates, nInputs, nSwitches >>

\* watcher.onDidCreate up to its await processFile(uri, workspaceRoot)
OnDidCreate ==
  /\ events # << >>
  /\ Head(events).kind = "create"
  /\ events' = Tail(events)
  /\ inflight' = Append(inflight,
                    Task("create", Head(events).uri,
                         processFile(fs, Head(events).uri, workspaceRoot, Null)))
  /\ UNCHANGED << probe, fs, moduleGraph, isReady, isEnabled, scanPhase, scanFiles,
                  scanResults, docUri, docText, timers, debounceTimer, decorations,
                  updates, nInputs, nSwitches >>

\* mutant of AfterProcessFile: a failed extraction removes the module's record
AfterProcessFileDeletesOnNull(graph, uri, moduleInfo) ==
  IF moduleInfo # Null
  THEN propagateClientStatus(GraphSet(graph, moduleInfo))
  ELSE IF uri \in DOMAIN graph
  THEN propagateClientStatus(GraphDelete(graph, uri))
  ELSE graph

\* mutant of AfterProcessFile: the record is stored and the propagation is not run
AfterProcessFileNoPropagation(graph, uri, moduleInfo) ==
  IF moduleInfo # Null THEN GraphSet(graph, moduleInfo) ELSE graph

\* the graph after a handler's
\* if (moduleInfo) { moduleGraph.set(moduleInfo.filePath, moduleInfo); propagate }
AfterProcessFile(graph, uri, moduleInfo) ==
  IF moduleInfo # Null
  THEN propagateClientStatus(GraphSet(graph, moduleInfo))
  ELSE graph

\* the continuation of a watcher handler after its await, for the i-th call in
\* flight: the graph is updated and every visible editor redecorated, or
\* (moduleInfo is null) nothing is done
Continuation(kind, i) ==
  /\ i \in DOMAIN inflight
  /\ inflight[i].kind = kind
  /\ inflight' = RemoveAt(inflight, i)
  /\ LET t == inflight[i]
         graph == AfterProcessFile(moduleGraph, t.uri, t.moduleInfo)
         ui == IF t.moduleInfo # Null
               THEN ForEachUpdateDecorations(UI, visibleTextEditors(docText), isReady,
                                             isEnabled, graph, fs, docText)
               ELSE UI
     IN /\ moduleGraph' = graph
        /\ decorations' = ui.decorations
        /\ updates' = ui.updates
  /\ UNCHANGED << probe, fs, isReady, isEnabled, scanPhase, scanFiles, scanResults, events,
                  docUri, docText, timers, debounceTimer, nInputs, nSwitches >>

\* watcher.onDidChange after its await
OnDidChangeContinuation == \E i \in DOMAIN inflight : Continuation("change", i)

\* watcher.onDidCreate after its await
OnDidCreateContinuation == \E i \in DOMAIN inflight : Continuation("create", i)

\* mutant of AfterDelete: the propagation is not re-run
AfterDeleteNoPropagation(graph, filePath) ==
  IF filePath \in DOMAIN graph THEN GraphDelete(graph, filePath) ELSE graph

\* the graph after watcher.onDidDelete for filePath
AfterDelete(graph, filePath) ==
  IF filePath \in DOMAIN graph
  THEN propagateClientStatus(GraphDelete(graph, filePath))
  ELSE graph

\* watcher.onDidDelete (synchronous)
OnDidDelete ==
  /\ events # << >>
  /\ Head(events).kind = "delete"
  /\ events' = Tail(events)
  /\ LET graph == AfterDelete(moduleGraph, Head(events).uri)
         ui == IF Head(events).uri \in DOMAIN moduleGraph
               THEN ForEachUpdateDecorations(UI, visibleTextEditors(docText), isReady,
                                             isEnabled, graph, fs, docText)
               ELSE UI
     IN /\ moduleGraph' = graph
        /\ decorations' = ui.decorations
        /\ updates' = ui.updates
  /\ UNCHANGED << probe, fs, isReady, isEnabled, scanPhase, scanFiles, scanResults, inflight,
                  docUri, docText, timers, debounceTimer, nInputs, nSwitches >>

-----------------------------------------------------------------------------
(* Content edits: onDidChangeTextDocument and its debounce timer *)

\* mutant of clearTimeout: the pending callback is left in place
clearTimeoutSkipped(pending, id) == pending

\* clearTimeout(id): no effect when the timer has fired or was never set
clearTimeout(pending, id) == [i \in DOMAIN pending \ { id } |-> pending[i]]

\* setTimeout(callback, 200), the callback being the closure over event.document;
\* id is the handle it returns
setTimeout(pending, id, document) ==
  [i \in DOMAIN pending \cup { id } |-> IF i = id THEN document ELSE pending[i]]

\* the user edits the buffer of document d; onDidChangeTextDocument re-arms the
\* debounce timer when the extension is enabled and d is the active editor's
EditDocument(d, c) ==
  /\ nInputs < MaxInputs
  /\ d \in DOMAIN docText
  /\ docText[d] # c
  /\ docText' = [docText EXCEPT ![d] = c]
  /\ nInputs' = nInputs + 1
  /\ IF isEnabled /\ docUri # NoPath /\ d = docUri
     THEN /\ timers' = setTimeout(clearTimeout(timers, debounceTimer),
                                  debounceTimer + 1, d)
          /\ debounceTimer' = debounceTimer + 1
     ELSE UNCHANGED << timers, debounceTimer >>
  /\ UNCHANGED << probe, fs, moduleGraph, isReady, isEnabled, scanPhase, scanFiles,
                  scanResults, events, inflight, docUri, decorations, updates,
                  nSwitches >>

\* the timer id fires: the callback runs up to its await
\* processFile(event.document.uri, workspaceRoot, liveContent)
DebounceFire(id) ==
  /\ id \in DOMAIN timers
  /\ timers' = [i \in DOMAIN timers \ { id } |-> timers[i]]
  /\ inflight' = Append(inflight,
                    Task("edit", timers[id],
                         processFile(fs, timers[id], workspaceRoot,
                                     DocumentText(fs, docText, timers[id]))))
  /\ UNCHANGED << probe, fs, moduleGraph, isReady, isEnabled, scanPhase, scanFiles,
                  scanResults, events, docUri, docText, debounceTimer, decorations,
                  updates, nInputs, nSwitches >>

\* the timer callback after its await, for the i-th call in flight: the graph
\* is updated when moduleInfo is not null; the editor the edit was made in is
\* redecorated in any case, the other visible editors when the graph was updated
EditContinuation(i) ==
  /\ i \in DOMAIN inflight
  /\ inflight[i].kind = "edit"
  /\ inflight' = RemoveAt(inflight, i)
  /\ LET t == inflight[i]
         graph == AfterProcessFile(moduleGraph, t.uri, t.moduleInfo)
         own == updateDecorations(UI, t.uri, isReady, isEnabled, graph, fs, docText)
         ui == IF t.moduleInfo # Null
               THEN ForEachUpdateDecorations(
                      own, SelectSeq(visibleTextEditors(docText), LAMBDA e : e # t.uri),
                      isReady, isEnabled, graph, fs, docText)
               ELSE own
     IN /\ moduleGraph' = graph
        /\ decorations' = ui.decorations
        /\ updates' = ui.updates
  /\ UNCHANGED << probe, fs, isReady, isEnabled, scanPhase, scanFiles, scanResults, events,
                  docUri, docText, timers, debounceTimer, nInputs, nSwitches >>

-----------------------------------------------------------------------------
(* Commands, configuration, editors *)

\* next-client.enable
Enable ==
  /\ nInputs < MaxInputs
  /\ nInputs' = nInputs + 1
  /\ isEnabled' = TRUE
  /\ LET ui == ForEachUpdateDecorations(UI, visibleTextEditors(docText), isReady,
                                        TRUE, moduleGraph, fs, docText)
     IN /\ decorations' = ui.decorations
        /\ updates' = ui.updates
  /\ UNCHANGED << probe, fs, moduleGraph, isReady, scanPhase, scanFiles, scanResults, events,
                  inflight, docUri, docText, timers, debounceTimer, nSwitches >>

\* next-client.disable
Disable ==
  /\ nInputs < MaxInputs
  /\ nInputs' = nInputs + 1
  /\ isEnabled' = FALSE
  /\ decorations' = clearAllDecorations(decorations)
  /\ UNCHANGED << probe, fs, moduleGraph, isReady, scanPhase, scanFiles, scanResults, events,
                  inflight, docUri, docText, timers, debounceTimer, updates,
                  nSwitches >>

\* onDidChangeConfiguration for a change of nextClient.styling
OnDidChangeConfiguration ==
  /\ nInputs < MaxInputs
  /\ nInputs' = nInputs + 1
  /\ LET cleared == [UI EXCEPT !.decorations = refreshDecorationStyle(@)]
         ui == IF isEnabled
               THEN ForEachUpdateDecorations(cleared, visibleTextEditors(docText),
                                             isReady, isEnabled, moduleGraph, fs,
                                             docText)
               ELSE cleared
     IN /\ decorations' = ui.decorations
        /\ updates' = ui.updates
  /\ UNCHANGED << probe, fs, moduleGraph, isReady, isEnabled, scanPhase, scanFiles,
                  scanResults, events, inflight, docUri, docText, timers,
                  debounceTimer, nSwitches >>

\* the user makes another editor the active one: onDidChangeActiveTextEditor
OnDidChangeActiveTextEditor(editor) ==
  /\ nSwitches < MaxSwitches
  /\ nSwitches' = nSwitches + 1
  /\ editor \in DOMAIN docText
  /\ editor # docUri
  /\ docUri' = editor
  /\ LET ui == IF isEnabled
               THEN updateDecorations(UI, editor, isReady, isEnabled, moduleGraph,
                                      fs, docText)
               ELSE UI
     IN /\ decorations' = ui.decorations
        /\ updates' = ui.updates
  /\ UNCHANGED << probe, fs, moduleGraph, isReady, isEnabled, scanPhase, scanFiles,
                  scanResults, events, inflight, docText, timers, debounceTimer,
                  nInputs >>

\* a suspended updateDecorations call goes on after its await
UpdateContinuation(i) ==
  /\ i \in DOMAIN updates
  /\ LET ui == ResumeUpdate(UI, i, moduleGraph, fs)
     IN /\ decorations' = ui.decorations
        /\ updates' = ui.updates
  /\ UNCHANGED << probe, fs, moduleGraph, isReady, isEnabled, scanPhase, scanFiles,
                  scanResults, events, inflight, docUri, docText, timers,
                  debounceTimer, nInputs, nSwitches >>

-----------------------------------------------------------------------------

Next ==
  \/ ScanFindFiles
  \/ \E f \in Files : ScanProcessFile(f)
  \/ ScanMerge
  \/ ScanThen
  \/ \E f \in Files, c \in InputTexts : FsCreate(f, c)
  \/ \E f \in Files, c \in InputTexts : FsChange(f, c)
  \/ \E f \in Files : FsDelete(f)
  \/ OnDidChange
  \/ OnDidCreate
  \/ OnDidDelete
  \/ OnDidChangeContinuation
  \/ OnDidCreateContinuation
  \/ \E d \in OpenDocuments, c \in InputTexts : EditDocument(d, c)
  \/ \E id \in DOMAIN timers : DebounceFire(id)
  \/ \E i \in DOMAIN inflight : EditContinuation(i)
  \/ Enable
  \/ Disable
  \/ OnDidChangeConfiguration
  \/ \E e \in OpenDocuments : OnDidChangeActiveTextEditor(e)
  \/ \E i \in DOMAIN updates : UpdateContinuation(i)

Spec == Init /\ [][Next]_vars

-----------------------------------------------------------------------------
(* Activation with the persisted state "disabled":                           *)
(* context.globalState.get("nextClient.isEnabled", true) gives false.        *)

InitDisabled ==
  /\ fs \in InitialWorkspaces
  /\ moduleGraph = EmptyMap
  /\ isReady = FALSE
  /\ isEnabled = FALSE
  /\ scanPhase = "findFiles"
  /\ scanFiles = {}
  /\ scanResults = EmptyMap
  /\ events = << >>
  /\ inflight = << >>
  /\ docUri = ActiveDocument
  /\ docText = [d \in OpenDocuments |-> Null]
  /\ timers = EmptyMap
  /\ debounceTimer = 0
  /\ decorations = [d \in OpenDocuments |-> Null]
  /\ updates = << >>
  /\ nInputs = 0
  /\ nSwitches = 0
  /\ probe = Null

SpecDisabled == InitDisabled /\ [][Next]_vars

-----------------------------------------------------------------------------
(* The initial scan of an arbitrary quiet workspace: no file changes, no     *)
(* open documents and no commands while it runs.                             *)

InitScan ==
  /\ fs \in [Files -> Contents \cup { NoFile }]
  /\ moduleGraph = EmptyMap
  /\ isReady = FALSE
  /\ isEnabled = TRUE
  /\ scanPhase = "findFiles"
  /\ scanFiles = {}
  /\ scanResults = EmptyMap
  /\ events = << >>
  /\ inflight = << >>
  /\ docUri = NoPath
  /\ docText = EmptyMap
  /\ timers = EmptyMap
  /\ debounceTimer = 0
  /\ decorations = EmptyMap
  /\ updates = << >>
  /\ nInputs = 0
  /\ nSwitches = 0
  /\ probe = Null

NextScan ==
  \/ ScanFindFiles
  \/ \E f \in Files : ScanProcessFile(f)
  \/ ScanMerge
  \/ ScanThen

SpecScan == InitScan /\ [][NextScan]_vars

-----------------------------------------------------------------------------
(* File-system events one at a time: the environment changes a file only    *)
(* after the initial scan, when every earlier event has been handled to its *)
(* end, and the user does nothing.                                          *)

\* the scan is done and no handler has anything left to run
Idle ==
  /\ scanPhase = "done"
  /\ events = << >>
  /\ inflight = << >>
  /\ timers = EmptyMap
  /\ updates = << >>

NextSerial ==
  \/ ScanFindFiles
  \/ \E f \in Files : ScanProcessFile(f)
  \/ ScanMerge
  \/ ScanThen
  \/ \E f \in Files, c \in InputTexts : Idle /\ FsCreate(f, c)
  \/ \E f \in Files, c \in InputTexts : Idle /\ FsChange(f, c)
  \/ \E f \in Files : Idle /\ FsDelete(f)
  \/ OnDidChange
  \/ OnDidCreate
  \/ OnDidDelete
  \/ OnDidChangeContinuation
  \/ OnDidCreateContinuation
  \/ \E i \in DOMAIN updates : UpdateContinuation(i)

SpecSerial == Init /\ [][NextSerial]_vars

-----------------------------------------------------------------------------
(* The resolver and the extractor called on their own, over every file system *)
(* of the candidates of one base path.                                       *)

\* the base path the probed specifiers lead to: w/a
ResolverBase == Append(workspaceRoot, "a")

\* the paths resolveFileExtension looks at for ResolverBase
ResolverPaths ==
  { PathWithExt(ResolverBase, extensions[i]) : i \in 1..Len(extensions) }
    \cup { IndexPath(ResolverBase, extensions[i]) : i \in 1..Len(extensions) }

\* the file systems over ResolverPaths: w/a is absent, a file or a directory,
\* and only a directory has index files inside it
ResolverFileSystems ==
  { fsys \in [ResolverPaths -> { NoFile, Text(<< >>, {}) }
                               \cup { Directory }] :
      /\ \A p \in ResolverPaths \ { ResolverBase } : fsys[p] # Directory
      /\ \A p \in ResolverPaths :
           (Len(p) > Len(ResolverBase) /\ fsys[p] # NoFile)
             => fsys[ResolverBase] = Directory }

\* the module whose imports are resolved: w/page.tsx
ProbeImporter == File("page")

\* the specifiers probed: "./a", "../w/a", ".a", "@/a", "@scope/a", "a",
\* "w/a", "react"
ProbeSpecifiers ==
  { << ".", "a" >>, << "..", "w", "a" >>, << ".a" >>, << "@", "a" >>,
    << "@scope", "a" >>, << "a" >>, << "w", "a" >>, << "react" >> }

\* the texts handed to processFile: at most MaxImports import declarations
ProbeTexts ==
  { [directives |-> d, importSources |-> t] :
      d \in DirectiveLists,
      t \in { u \in SUBSET ProbeSpecifiers : Cardinality(u) <= MaxImports } }
    \cup { Unparsable }

InitResolve ==
  /\ fs \in ResolverFileSystems
  /\ moduleGraph = EmptyMap
  /\ isReady = FALSE
  /\ isEnabled = TRUE
  /\ scanPhase = "findFiles"
  /\ scanFiles = {}
  /\ scanResults = EmptyMap
  /\ events = << >>
  /\ inflight = << >>
  /\ docUri = NoPath
  /\ docText = EmptyMap
  /\ timers = EmptyMap
  /\ debounceTimer = 0
  /\ decorations = EmptyMap
  /\ updates = << >>
  /\ nInputs = 0
  /\ nSwitches = 0
  /\ probe = Null

\* everything but the probe
programVars ==
  << fs, moduleGraph, isReady, isEnabled, scanPhase, scanFiles, scanResults, events,
     inflight, docUri, docText, timers, debounceTimer, decorations, updates,
     nInputs, nSwitches >>

\* await resolveFileExtension(absolutePath)
CallResolveFileExtension(absolutePath) ==
  /\ probe' = [ op           |-> "resolveFileExtension",
                absolutePath |-> absolutePath,
                result       |-> resolveFileExtension(fs, absolutePath) ]
  /\ UNCHANGED programVars

\* await resolveImportPath(importSource, currentFilePath, workspaceRoot)
CallResolveImportPath(importSource) ==
  /\ probe' = [ op           |-> "resolveImportPath",
                importSource |-> importSource,
                result       |-> resolveImportPath(fs, importSource, ProbeImporter,
                                                   workspaceRoot) ]
  /\ UNCHANGED programVars

\* await processFile(fileUri, workspaceRoot, fileContent)
CallProcessFile(fileContent) ==
  /\ probe' = [ op          |-> "processFile",
                fileContent |-> fileContent,
                result      |-> processFile(fs, ProbeImporter, workspaceRoot,
                                            fileContent) ]
  /\ UNCHANGED programVars

NextResolve ==
  \/ CallResolveFileExtension(ResolverBase)
  \/ \E s \in ProbeSpecifiers : CallResolveImportPath(s)
  \/ \E c \in ProbeTexts : CallProcessFile(c)

SpecResolve == InitResolve /\ [][NextResolve]_vars

-----------------------------------------------------------------------------
(* Graph notions the properties are stated with *)

\* the modules of graph that the modules of S import
ImportedBy(graph, S) ==
  { n \in DOMAIN graph : \E m \in S \cap DOMAIN graph : n \in graph[m].imports }

\* S and everything reachable from S along import edges between modules of graph
RECURSIVE ImportClosure(_, _)
ImportClosure(graph, S) ==
  LET T == S \cup ImportedBy(graph, S)
  IN IF T = S THEN S ELSE ImportClosure(graph, T)

\* the modules that carry the directive
DirectiveModules(graph) == { p \in DOMAIN graph : graph[p].hasUseClient }

\* the modules that carry the directive or are reachable from one that does
Tainted(graph) == ImportClosure(graph, DirectiveModules(graph))

\* the modules reachable from p along one or more import edges
ReachableFrom(graph, p) == ImportClosure(graph, ImportedBy(graph, { p }))

\* the members of the import cycle through p (empty when p is on no cycle)
CycleOf(graph, p) ==
  { c \in ReachableFrom(graph, p) : p \in ReachableFrom(graph, c) }

\* the modules reported client
ClientModules(graph) == { p \in DOMAIN graph : graph[p].isClient }

\* a boundary-blocking module: its file name is a reserved route-entry name
IsBoundaryBlocking(filePath) == filePath = File("page")

\* propagateClientStatus has completed and nothing has touched the graph since
Propagated == isReady

-----------------------------------------------------------------------------
(* C1-C6: the result of the propagation *)

\* C1: after propagateClientStatus completes, every module whose hasUseClient
\* flag is true has isClient true.
C1_DirectiveImpliesClient ==
  Propagated => DirectiveModules(moduleGraph) \subseteq ClientModules(moduleGraph)

\* C1 witness: a propagated graph with an import cycle and a directive-bearing module
C1_Witness ==
  /\ Propagated
  /\ \E p \in DOMAIN moduleGraph : Cardinality(CycleOf(moduleGraph, p)) >= 2
  /\ DirectiveModules(moduleGraph) # {}
  /\ DirectiveModules(moduleGraph) # DOMAIN moduleGraph

\* C2: after propagateClientStatus completes, for all modules M and N of the
\* graph with N in M.imports and M client, N is client, for N that is not a
\* boundary-blocking module.
C2_ClosedUnderImports ==
  Propagated =>
    \A m \in ClientModules(moduleGraph) :
      \A n \in moduleGraph[m].imports \cap DOMAIN moduleGraph :
        ~IsBoundaryBlocking(n) => moduleGraph[n].isClient

\* C2 witness: a client module without the directive imports a module that is
\* not boundary-blocking and has no directive either
C2_Witness ==
  /\ Propagated
  /\ \E m \in ClientModules(moduleGraph) :
       /\ ~moduleGraph[m].hasUseClient
       /\ \E n \in moduleGraph[m].imports \cap DOMAIN moduleGraph :
            n # m /\ ~IsBoundaryBlocking(n) /\ ~moduleGraph[n].hasUseClient

C4_CycleTaintedFromOutside ==
  Propagated =>
    \A m \in ClientModules(moduleGraph) :
      \A c \in moduleGraph[m].imports \cap DOMAIN moduleGraph :
        m \notin CycleOf(moduleGraph, c) =>
          CycleOf(moduleGraph, c) \subseteq ClientModules(moduleGraph)

\* C4 witness: a module outside a directive-free cycle of two modules carries
\* the directive and imports one member of the cycle
C4_Witness ==
  /\ Propagated
  /\ \E m \in DirectiveModules(moduleGraph) :
       \E c \in moduleGraph[m].imports \cap DOMAIN moduleGraph :
         /\ m \notin CycleOf(moduleGraph, c)
         /\ Cardinality(CycleOf(moduleGraph, c)) >= 2
         /\ CycleOf(moduleGraph, c) \cap DirectiveModules(moduleGraph) = {}

\* C5: a boundary-blocking module without the directive is non-client after
\* propagation even when a directive-bearing module imports it (and that
\* importing module is client).
C5_BlockingModuleStaysNonClient ==
  Propagated =>
    \A m \in DirectiveModules(moduleGraph) :
      /\ moduleGraph[m].isClient
      /\ \A n \in moduleGraph[m].imports \cap DOMAIN moduleGraph :
           (IsBoundaryBlocking(n) /\ ~moduleGraph[n].hasUseClient)
             => ~moduleGraph[n].isClient

\* C6: a module without the directive that imports a directive-bearing module
\* which imports nothing is client after propagation, as is the imported module.
C6_ImporterOfClientIsClient ==
  Propagated =>
    \A a \in DOMAIN moduleGraph :
      \A b \in moduleGraph[a].imports \cap DirectiveModules(moduleGraph) :
        (~moduleGraph[a].hasUseClient /\ moduleGraph[b].imports = {})
          => (moduleGraph[a].isClient /\ moduleGraph[b].isClient)

-----------------------------------------------------------------------------
(* C7-C10: the graph under edits and file events *)

\* the step is the continuation of the edit handler for task t, and it stores a
\* record without the directive over a record that carries it
EditRemovesDirective(i) ==
  /\ inflight[i].kind = "edit"
  /\ inflight' = RemoveAt(inflight, i)
  /\ inflight[i].moduleInfo # Null
  /\ inflight[i].uri \in DOMAIN moduleGraph
  /\ moduleGraph[inflight[i].uri].hasUseClient
  /\ ~inflight[i].moduleInfo.hasUseClient

\* C7: once a content edit that removes the directive from a module has been
\* applied (record replaced, propagation re-run), every module with no other
\* tainted path is non-client: none stays client because of the former directive.
C7_EditRemovingDirectiveFlips ==
  [][ \A i \in DOMAIN inflight :
        EditRemovesDirective(i) =>
          \A m \in DOMAIN moduleGraph' :
            m \notin Tainted(moduleGraph') => ~moduleGraph'[m].isClient ]_vars

\* C7 witness: the buffer of the active document has lost the directive its file
\* still carries, the edit has been applied to the graph, and a module the
\* document imports is now non-client
C7_Witness ==
  /\ isReady
  /\ docText[docUri] \in ParsedTexts
  /\ ~HasUseClientDirective(docText[docUri])
  /\ fs[docUri] \in ParsedTexts
  /\ HasUseClientDirective(fs[docUri])
  /\ inflight = << >>
  /\ timers = EmptyMap
  /\ docUri \in DOMAIN moduleGraph
  /\ ~moduleGraph[docUri].hasUseClient
  /\ \E m \in moduleGraph[docUri].imports \cap DOMAIN moduleGraph :
       m # docUri /\ ~moduleGraph[m].isClient

\* C8: once the extension is ready, between the synchronous steps of the
\* handlers, the isClient flag of every module equals the result of a fresh
\* propagation over the current directive flags and import sets.
C8_StatusNeverStale ==
  isReady =>
    /\ ClientModules(moduleGraph) = Tainted(moduleGraph)
    /\ propagateClientStatus(moduleGraph) = moduleGraph

\* C8 witness: a file change and a buffer edit have both been handled to the
\* end, and a module is client without carrying the directive
C8_Witness ==
  /\ isReady
  /\ nInputs = MaxInputs
  /\ events = << >>
  /\ inflight = << >>
  /\ timers = EmptyMap
  /\ docText[docUri] \in ParsedTexts
  /\ docUri \in DOMAIN moduleGraph
  /\ moduleGraph[docUri].hasUseClient = HasUseClientDirective(docText[docUri])
  /\ \E f \in Files : fs[f] = NoFile /\ f \notin DOMAIN moduleGraph
  /\ ClientModules(moduleGraph) \ DirectiveModules(moduleGraph) # {}

\* C9: in every reachable state, no module's imports set contains the module's
\* own path.
C9_NoSelfImport ==
  \A p \in DOMAIN moduleGraph : p \notin moduleGraph[p].imports

\* the step is watcher.onDidDelete for the notification at the head of the queue
DeleteHandled ==
  /\ events # << >>
  /\ Head(events).kind = "delete"
  /\ events' = Tail(events)

\* C10: after a file-deleted event for path P has been handled, P is no key of
\* the graph and no remaining module's imports set contains P, whether or not P
\* had a record when the event arrived.
C10_DeleteLeavesNoReference ==
  [][ DeleteHandled =>
        /\ Head(events).uri \notin DOMAIN moduleGraph'
        /\ \A m \in DOMAIN moduleGraph' :
             Head(events).uri \notin moduleGraph'[m].imports ]_vars

-----------------------------------------------------------------------------
(* C11-C12: a processFile call that returns null *)

\* the step is the continuation of the i-th call in flight, which was started by
\* a handler of one of kinds and returned null
NullContinuation(i, kinds) ==
  /\ inflight[i].kind \in kinds
  /\ inflight[i].moduleInfo = Null
  /\ inflight' = RemoveAt(inflight, i)

\* C11: when processFile returns null during a content edit or a file-changed
\* event, the module graph is left unchanged: the module's previous record
\* stays, no other record changes and no flag is recomputed.
C11_NullLeavesGraphUnchanged ==
  [][ \A i \in DOMAIN inflight :
        NullContinuation(i, { "edit", "change" }) => moduleGraph' = moduleGraph ]_vars

\* C11 witness: the active document has a record, its buffer was then edited
\* into a text that does not parse, the debounce timer has fired for that text
\* and the handler has run to its end; the record is still there
C11_Witness ==
  /\ isEnabled
  /\ nSwitches = 0
  /\ nInputs = 1
  /\ docText[docUri] = Unparsable
  /\ debounceTimer = 1
  /\ timers = EmptyMap
  /\ inflight = << >>
  /\ docUri \in DOMAIN moduleGraph

\* C12: when a file-changed event is handled for a module that is in the graph
\* and the read of the file fails, the module's record is deleted from the graph.
C12_UnreadableChangeDeletesRecord ==
  [][ \A i \in DOMAIN inflight :
        ( /\ NullContinuation(i, { "change" })
          /\ ~IsFile(fs, inflight[i].uri)
          /\ inflight[i].uri \in DOMAIN moduleGraph )
        => inflight[i].uri \notin DOMAIN moduleGraph' ]_vars

-----------------------------------------------------------------------------
(* C13-C15: the debounce timer and the reprocess runs it starts *)

EditOf(d) == docText'[d] # docText[d]

\* C14: debouncing is per module: a reprocess pending for one document is not
\* cancelled by an edit of a different document.
C14_EditLeavesOtherTimers ==
  [][ \A id \in DOMAIN timers :
        \A d \in DOMAIN docText :
          (d # timers[id] /\ EditOf(d)) => id \in DOMAIN timers' ]_vars

\* C15: of two reprocess runs of one module in flight, the record of the run
\* started later from newer content is never written to the graph while the
\* run started earlier still awaits its continuation (its record would then be
\* written after the newer one).
C15_NoStaleReprocessLands ==
  [][ \A i, j \in DOMAIN inflight :
        ( /\ i < j
          /\ inflight[i].kind = "edit"
          /\ inflight[j].kind = "edit"
          /\ inflight[i].uri = inflight[j].uri
          /\ inflight[i].moduleInfo # Null
          /\ inflight[j].moduleInfo # Null
          /\ inflight[i].moduleInfo # inflight[j].moduleInfo )
        => inflight' # RemoveAt(inflight, j) ]_vars

-----------------------------------------------------------------------------
(* C16-C19: updateDecorations *)

\* a decoration set applied by updateDecorations
AppliedByUpdate(d) == d # Null /\ d.by = "updateDecorations"

\* C16: an updateDecorations call observes one graph state: while a call is
\* suspended at its await with a read of the graph still ahead of it (the
\* import resolved), no step changes the module graph.
C16_UpdateSeesOneGraph ==
  [][ (\E i \in DOMAIN updates : updates[i].absoluteImportPath # NoPath)
        => moduleGraph' = moduleGraph ]_vars

\* C17: while isReady is false, updateDecorations applies no decoration set to
\* any editor (neither ranges nor an empty set), and no call of it is suspended.
C17_NoDecorationsBeforeReady ==
  ~isReady =>
    /\ updates = << >>
    /\ \A e \in DOMAIN decorations : ~AppliedByUpdate(decorations[e])

\* C17 witness: the scan results are merged but isReady is not set yet, and
\* the user has made the other editor the active one with the extension
\* enabled all along, so that updateDecorations has been called for it
C17_Witness ==
  /\ ~isReady
  /\ scanPhase = "merged"
  /\ moduleGraph # EmptyMap
  /\ isEnabled
  /\ nInputs = 0
  /\ nSwitches = 1

\* C18: once the initial scan has completed with the extension enabled, and
\* with no user or file-system event at all, every visible editor gets its
\* decorations from updateDecorations: in the state where the scan is done and
\* nothing is left to run, each of them has.
C18_ScanCompletionDecorates ==
  ( /\ scanPhase = "done"
    /\ isEnabled
    /\ nInputs = 0
    /\ nSwitches = 0
    /\ updates = << >> )
  => \A e \in DOMAIN decorations : AppliedByUpdate(decorations[e])

\* C19: from the disable command to the enable command (isEnabled is false),
\* no editor holds a non-empty decoration set.
C19_DisabledMeansNoDecorations ==
  ~isEnabled =>
    \A e \in DOMAIN decorations :
      decorations[e] = Null \/ decorations[e].ranges = {}

-----------------------------------------------------------------------------
(* C20: unsaved buffers and on-disk content *)

\* the step stores (or would store) a record extracted from the on-disk content
\* of d: the continuation of a file-changed or file-created handler, or the
\* merge of the scan results
DiskRecordWritten(d) ==
  \/ \E i \in DOMAIN inflight :
       /\ inflight[i].kind \in { "change", "create" }
       /\ inflight[i].uri = d
       /\ inflight[i].moduleInfo # Null
       /\ inflight' = RemoveAt(inflight, i)
  \/ /\ scanPhase = "process"
     /\ scanPhase' = "merged"
     /\ d \in DOMAIN scanResults
     /\ scanResults[d] # Null

\* C20: for a module whose document is open with unsaved modifications, the
\* graph record is not replaced by a record extracted from the on-disk content,
\* be it by a file-changed event, a file-created event or the scan's merge.
C20_DirtyBufferBeatsDisk ==
  [][ \A d \in DOMAIN docText :
        ( /\ docText[d] # Null
          /\ d \in DOMAIN moduleGraph
          /\ DiskRecordWritten(d) )
        => (d \in DOMAIN moduleGraph' /\ moduleGraph'[d] = moduleGraph[d]) ]_vars

-----------------------------------------------------------------------------
(* C24-C25: the specifier resolver *)

\* the specifier begins neither with "." nor with "@/"
IsBare(importSource) ==
  \/ importSource = << >>
  \/ /\ Head(importSource) \notin DotSegments
     /\ ~(Len(importSource) >= 2 /\ Head(importSource) = "@")

\* C24: for every import specifier that begins neither with "." nor with "@/",
\* resolveImportPath returns null whatever files exist, and the record
\* processFile builds has no edge for it.
C24_BareSpecifierUnresolved ==
  /\ ( /\ probe # Null
       /\ probe.op = "resolveImportPath"
       /\ IsBare(probe.importSource) )
     => probe.result = NoPath
  /\ ( /\ probe # Null
       /\ probe.op = "processFile"
       /\ probe.result # Null )
     => probe.result.imports =
          { resolveImportPath(fs, s, ProbeImporter, workspaceRoot) :
              s \in { t \in probe.fileContent.importSources : ~IsBare(t) } }
            \ { NoPath }

\* C24 witness: the specifier "a" is resolved while w/a and w/a.tsx are files
C24_Witness ==
  /\ probe # Null
  /\ probe.op = "resolveImportPath"
  /\ probe.importSource = << "a" >>
  /\ fs[ResolverBase] \notin { NoFile, Directory }
  /\ fs[PathWithExt(ResolverBase, ".tsx")] # NoFile
  /\ probe.result = NoPath

\* the candidates of w/a in the order they are tried
CandidateOrder ==
  << << "w", "a" >>, << "w", "a.js" >>, << "w", "a.jsx" >>, << "w", "a.ts" >>,
     << "w", "a.tsx" >>,
     << "w", "a", "index" >>, << "w", "a", "index.js" >>, << "w", "a", "index.jsx" >>,
     << "w", "a", "index.ts" >>, << "w", "a", "index.tsx" >> >>

\* the candidates that exist as regular files
RegularCandidates ==
  { i \in 1..Len(CandidateOrder) :
      fs[CandidateOrder[i]] # NoFile /\ fs[CandidateOrder[i]] # Directory }

\* C25: resolveFileExtension returns the first path, in the order p, p.js,
\* p.jsx, p.ts, p.tsx, then the index candidates inside p in the same extension
\* order, that exists as a regular file, and null when none does.
C25_FirstCandidateWins ==
  ( /\ probe # Null
    /\ probe.op = "resolveFileExtension"
    /\ probe.absolutePath = << "w", "a" >> )
  => IF RegularCandidates = {}
     THEN probe.result = NoPath
     ELSE \E i \in RegularCandidates :
            /\ probe.result = CandidateOrder[i]
            /\ \A j \in RegularCandidates : i <= j

\* C25 witness: w/a is a directory with an index.js inside, w/a.js and w/a.jsx
\* are absent, w/a.ts and w/a.tsx are files: w/a.ts is returned
C25_Witness ==
  /\ probe # Null
  /\ probe.op = "resolveFileExtension"
  /\ fs[<< "w", "a" >>] = Directory
  /\ fs[<< "w", "a", "index.js" >>] # NoFile
  /\ fs[<< "w", "a.js" >>] = NoFile
  /\ fs[<< "w", "a.jsx" >>] = NoFile
  /\ fs[<< "w", "a.ts" >>] # NoFile
  /\ fs[<< "w", "a.tsx" >>] # NoFile
  /\ probe.result = << "w", "a.ts" >>

-----------------------------------------------------------------------------
(* C21-C23: the graph against the file system *)

\* the step is the continuation of watcher.onDidCreate for the i-th call in
\* flight, which stores a record, and nothing else is left to handle
CreateCompleted(i) ==
  /\ inflight[i].kind = "create"
  /\ inflight[i].moduleInfo # Null
  /\ inflight' = RemoveAt(inflight, i)
  /\ Len(inflight) = 1
  /\ events = << >>
  /\ timers = EmptyMap
  /\ scanPhase = "done"

\* the text of the file of m holds an import specifier that resolves to target
ImportsByText(fsys, m, target) ==
  /\ fsys[m] \in ParsedTexts
  /\ \E s \in fsys[m].importSources :
       resolveImportPath(fsys, s, m, workspaceRoot) = target

\* C21: an import specifier whose target file does not exist gives no edge;
\* once that file has been created and the update for the creation is
\* completed, the imports set of every module whose (saved) text imports it
\* contains the new module's path.
C21_CreatedTargetGetsEdge ==
  [][ \A i \in DOMAIN inflight :
        CreateCompleted(i) =>
          \A m \in DOMAIN moduleGraph' :
            (~IsOpenAndDirty(m) /\ ImportsByText(fs, m, inflight[i].uri))
              => inflight[i].uri \in moduleGraph'[m].imports ]_vars

\* the graph scanWorkspace() followed by propagateClientStatus() builds from fsys
Rescan(fsys) ==
  propagateClientStatus(
    GraphMerge(EmptyMap,
               [f \in { g \in Files : fsys[g] # NoFile } |->
                  processFile(fsys, f, workspaceRoot, Null)]))

\* C22: after any sequence of file-created, file-changed and file-deleted
\* events, each handled to completion before the next and all after the
\* initial scan, the module graph (modules, directive flags, import sets and
\* isClient flags) equals the graph a full scan plus propagation over the
\* current file system would build (here: when every file parses).
C22_GraphEqualsRescan ==
  (Idle /\ \A f \in Files : fs[f] # Unparsable) => moduleGraph = Rescan(fs)

\* C23: the initial scan's population of the graph is atomic with respect to
\* the other handlers: between the scan clearing the graph and the scan
\* finishing its merge no edit or file-watcher handler writes or deletes a
\* record, so the merge is the only step that changes the graph in between.
C23_ScanPopulationAtomic ==
  [][ (scanPhase \in { "findFiles", "process" } /\ scanPhase' = scanPhase)
        => moduleGraph' = moduleGraph ]_vars

-----------------------------------------------------------------------------
(* C26: extraction is idempotent *)

\* the text the call in flight t was given: the live buffer for an edit, the
\* file for a watcher event
ContentOf(t, fsys, texts) ==
  IF t.kind = "edit" THEN DocumentText(fsys, texts, t.uri) ELSE Null

-----------------------------------------------------------------------------
(* C27-C28: the ranges updateDecorations computes *)

\* C27: definition ranges are produced for a view exactly when the viewed
\* module itself carries the directive; a module that is client only through
\* propagation gets none. Stated for every updateDecorations call that starts
\* in the step and goes on to its await.
C27_DefinitionsOnlyWithDirective ==
  [][ \A i \in DOMAIN updates' :
        i > Len(updates) =>
          LET call == updates'[i]
          IN (DefinitionRange \in call.decorations)
               <=> ( /\ call.editor \in DOMAIN moduleGraph'
                     /\ moduleGraph'[call.editor].hasUseClient ) ]_vars

\* the step ends the i-th suspended updateDecorations call
UpdateEnds(i) ==
  /\ Len(updates') = Len(updates) - 1
  /\ updates' = RemoveAt(updates, i)

\* C28: a tag-like usage gets usage ranges if and only if the import its tag
\* name is bound by resolves to a module that is in the graph with isClient
\* true; usages of unresolved imports, of modules absent from the graph and
\* of non-client modules get none.
C28_UsagesOnlyOfClientModules ==
  [][ \A i \in DOMAIN updates :
        UpdateEnds(i) =>
          LET call == updates[i]
              usages == { UsageRange(s) : s \in Specifiers }
              target == call.absoluteImportPath
          IN /\ decorations'[call.editor] # Null
             /\ decorations'[call.editor].ranges \cap usages =
                  (call.decorations \cap usages) \cup
                  (IF /\ target # NoPath
                      /\ target \in DOMAIN moduleGraph
                      /\ moduleGraph[target].isClient
                   THEN { UsageRange(Head(call.jsxElements)) }
                   ELSE {}) ]_vars

\* C28 witness: the editor of a.tsx shows the usage ranges of the component it
\* imports from ./b, b.tsx being a client module of the graph
C28_Witness ==
  /\ decorations[File("a")] # Null
  /\ decorations[File("a")].by = "updateDecorations"
  /\ UsageRange(<< ".", "b" >>) \in decorations[File("a")].ranges
  /\ File("b") \in DOMAIN moduleGraph
  /\ moduleGraph[File("b")].isClient

-----------------------------------------------------------------------------
(* C29: the propagation loop ends by itself *)

\* C29: propagateClientStatus terminates on every module graph, cycles and
\* self-imports included, each module being enqueued at most once: the loop
\* runs once per client module, so no more often than there are modules, and
\* it ends with an empty queue, not at the iteration ceiling. Stated for the
\* run the initial scan makes on the merged graph.
C29_PropagationEndsWithEmptyQueue ==
  scanPhase = "merged" =>
    LET run == PropagateRun(moduleGraph)
    IN /\ run.queue = << >>
       /\ run.count < MAX_ITERATIONS
       /\ run.count <= Cardinality(DOMAIN moduleGraph)
       /\ run.count = Cardinality({ p \in DOMAIN run.graph : run.graph[p].isClient })

\* C29 witness: a merged graph with a self-import and a cycle of two modules,
\* on which the loop runs once for each of the three modules
C29_Witness ==
  /\ scanPhase = "merged"
  /\ \E m \in DOMAIN moduleGraph : m \in moduleGraph[m].imports
  /\ \E p, q \in DOMAIN moduleGraph :
       /\ p # q
       /\ q \in moduleGraph[p].imports
       /\ p \in moduleGraph[q].imports
  /\ PropagateRun(moduleGraph).count = 3

-----------------------------------------------------------------------------
(* C30: a deletion against a processFile in flight *)

\* the step is the continuation of the i-th call in flight, a watcher's
\* processFile that has read the file of its uri; the file has been deleted
\* since, the file-deleted event has been handled, and nothing else is
\* pending or in flight for that uri
LastWorkForDeleted(i) ==
  /\ inflight' = RemoveAt(inflight, i)
  /\ inflight[i].kind \in { "change", "create" }
  /\ inflight[i].moduleInfo # Null
  /\ ~IsFile(fs, inflight[i].uri)
  /\ \A k \in DOMAIN events : events[k].uri # inflight[i].uri
  /\ \A k \in DOMAIN inflight : k # i => inflight[k].uri # inflight[i].uri
  /\ \A id \in DOMAIN timers : timers[id] # inflight[i].uri

\* C30: when the file-deleted event for a path is handled while a processFile
\* for that path, its content already read, is in flight, the path is not a
\* module of the graph once the work in flight has completed.
C30_DeletedModuleNotReinserted ==
  [][ \A i \in DOMAIN inflight :
        LastWorkForDeleted(i) => inflight[i].uri \notin DOMAIN moduleGraph' ]_vars

-----------------------------------------------------------------------------
(* C33: what propagateClientStatus leaves alone *)

\* the graphs have the same module paths, and every module the same filePath,
\* hasUseClient flag and imports set in both
SameButIsClient(before, after) ==
  /\ DOMAIN after = DOMAIN before
  /\ \A p \in DOMAIN before :
       /\ after[p].filePath = before[p].filePath
       /\ after[p].hasUseClient = before[p].hasUseClient
       /\ after[p].imports = before[p].imports

\* C33: propagateClientStatus changes nothing but isClient flags: the module
\* paths, every hasUseClient flag and every imports set are after the run what
\* they were before it. Stated for every run a handler makes: on the merged
\* graph of the scan, on the graph with the new record stored, and on the
\* graph with the deleted module removed.
C33_PropagationChangesOnlyIsClient ==
  [][ /\ (scanPhase = "merged" /\ scanPhase' = "done")
           => SameButIsClient(moduleGraph, moduleGraph')
      /\ \A i \in DOMAIN inflight :
           ( /\ Len(inflight') < Len(inflight)
             /\ inflight' = RemoveAt(inflight, i)
             /\ inflight[i].moduleInfo # Null )
           => SameButIsClient(GraphSet(moduleGraph, inflight[i].moduleInfo),
                              moduleGraph')
      /\ ( /\ Len(events') < Len(events)
           /\ Head(events).kind = "delete"
           /\ Head(events).uri \in DOMAIN moduleGraph )
           => SameButIsClient(GraphDelete(moduleGraph, Head(events).uri),
                              moduleGraph') ]_vars

\* C33 witness: the scan is done, a record has been stored by a handler since,
\* and the propagation has made a module without the directive client
C33_Witness ==
  /\ scanPhase = "done"
  /\ nInputs > 0
  /\ inflight = << >>
  /\ events = << >>
  /\ \E p \in DOMAIN moduleGraph :
       /\ moduleGraph[p].isClient
       /\ ~moduleGraph[p].hasUseClient
       /\ fs[p] \in InputTexts
       /\ moduleGraph[p] #
            processFile(fs, p, workspaceRoot, Null)

-----------------------------------------------------------------------------
(* C31: overlapping updateDecorations calls for one editor *)

\* C31: when two updateDecorations calls for the same editor overlap, the
\* decoration set left on the editor once both have finished is the one the
\* call that started later computed. Stated at the step in which the later
\* call (j) finishes while the earlier one (i) is still suspended at its last
\* await: the earlier call, finishing next, leaves the editor's set as it is.
C31_NewerUpdateWins ==
  [][ \A j \in DOMAIN updates : \A i \in 1..(j - 1) :
        ( /\ UpdateEnds(j)
          /\ updates[i].editor = updates[j].editor
          /\ Len(updates[i].jsxElements) = 1 )
        => ResumeUpdate([decorations |-> decorations', updates |-> updates'],
                        i, moduleGraph', fs').decorations[updates[j].editor]
             = decorations'[updates[j].editor] ]_vars

-----------------------------------------------------------------------------
(* C32: edits made while the extension is disabled *)

\* the step is the enable command, nothing else is pending or in flight, and
\* the buffer of the active document, which parses, holds edits none of which
\* the edit handler took up: no debounce timer was ever set and the active
\* editor never changed
EnableAfterDroppedEdits ==
  /\ ~isEnabled
  /\ isEnabled'
  /\ scanPhase = "done"
  /\ events = << >>
  /\ inflight = << >>
  /\ timers = EmptyMap
  /\ debounceTimer = 0
  /\ nSwitches = 0
  /\ docUri # NoPath
  /\ docText[docUri] \in ParsedTexts

\* C32: content edits made while the extension is disabled are not lost:
\* after the enable command has been handled and the pending work is
\* completed, the graph record of the edited module reflects its current
\* buffer content. Stated at the enable command when no work is pending other
\* than the redecoration it starts, which does not write the graph.
C32_DisabledEditsNotLost ==
  [][ EnableAfterDroppedEdits =>
        /\ docUri \in DOMAIN moduleGraph'
        /\ moduleGraph'[docUri].hasUseClient
             = HasUseClientDirective(docText[docUri])
        /\ moduleGraph'[docUri].imports
             = ResolvedImports(fs, docText[docUri], docUri, workspaceRoot) ]_vars

====
